---- MODULE Spec2Model ----
(***************************************************************************)
(* Model of the colorant targeting engine (src/src/colorant.rs):           *)
(* the colour model, the region detector, the action dispatcher and the    *)
(* engine life cycle (new / toggle / process_action / close / drop).       *)
(***************************************************************************)
EXTENDS Integers, Sequences, FiniteSets, TLC

(***************************************************************************)
(* IEEE-754 binary32 arithmetic, as the f32 expressions of the source use  *)
(* it.  A value is [s, m, e] = (-1)^s * m * 2^e with m = 0 or              *)
(* 2^23 <= m < 2^24; results are rounded to nearest, ties to even.  The    *)
(* magnitudes met in the engine stay far from overflow and from the        *)
(* subnormal range, so neither is represented.                             *)
(***************************************************************************)
Pow2(n) == 2 ^ n

F32Zero == [s |-> 0, m |-> 0, e |-> 0]

\* number of significant bits of n, 0 < n < 2^31
BitLen(n) == CHOOSE k \in 1..31 : n \div Pow2(k - 1) = 1

\* a mantissa q <= 2^24 after rounding: 2^24 carries into the exponent
F32Carry(s, q, e) ==
    IF q = Pow2(24) THEN [s |-> s, m |-> Pow2(23), e |-> e + 1]
    ELSE [s |-> s, m |-> q, e |-> e]

\* round to nearest, ties to even: q the kept bits, r the dropped bits,
\* half the weight of the first dropped bit, sticky further non-zero bits
F32RoundBits(s, q, r, half, e, sticky) ==
    F32Carry(s,
             IF r > half \/ (r = half /\ (sticky \/ q % 2 = 1)) THEN q + 1 ELSE q,
             e)

\* n has L significant bits
F32RoundLen(s, n, e, sticky, L) ==
    IF L <= 24 THEN [s |-> s, m |-> n * Pow2(24 - L), e |-> e - (24 - L)]
    ELSE F32RoundBits(s, n \div Pow2(L - 24), n % Pow2(L - 24), Pow2(L - 25),
                      e + (L - 24), sticky)

\* round (-1)^s * (n + f) * 2^e to binary32, where 0 <= n < 2^31 and
\* 0 < f < 1 if sticky, f = 0 otherwise
F32Round(s, n, e, sticky) ==
    IF n = 0 THEN [s |-> s, m |-> 0, e |-> 0]
    ELSE F32RoundLen(s, n, e, sticky, BitLen(n))

\* `i as f32` for an integer of magnitude below 2^24 (exact)
F32FromInt(i) == F32Round(IF i < 0 THEN 1 ELSE 0, IF i < 0 THEN 0 - i ELSE i, 0, FALSE)

F32Neg(a) == [a EXCEPT !.s = 1 - a.s]

F32Abs(a) == [a EXCEPT !.s = 0]

\* comparison of magnitudes: -1, 0, 1
F32CmpAbs(a, b) ==
    IF a.m = 0 /\ b.m = 0 THEN 0
    ELSE IF a.m = 0 THEN -1
    ELSE IF b.m = 0 THEN 1
    ELSE IF a.e < b.e THEN -1
    ELSE IF a.e > b.e THEN 1
    ELSE IF a.m < b.m THEN -1
    ELSE IF a.m > b.m THEN 1
    ELSE 0

\* a < b, given cmp = F32CmpAbs(a, b)
F32LtCmp(a, b, cmp) ==
    IF a.m = 0 /\ b.m = 0 THEN FALSE
    ELSE IF a.s = 1 /\ (b.s = 0 \/ b.m = 0) THEN a.m # 0 \/ b.s = 0
    ELSE IF a.s = 0 /\ b.s = 1 THEN FALSE
    ELSE IF a.s = 0 THEN cmp = -1
    ELSE cmp = 1

F32Lt(a, b) == F32LtCmp(a, b, F32CmpAbs(a, b))

\* values are normalised, so equality is equality of the fields, but -0 = +0
F32Eq(a, b) == (a.m = 0 /\ b.m = 0) \/ a = b

F32Le(a, b) == ~F32Lt(b, a)

F32Max(a, b) == IF F32Lt(a, b) THEN b ELSE a

F32Min(a, b) == IF F32Lt(b, a) THEN b ELSE a

\* A + B or A - B at exponent e; lost: B was truncated
F32AddParts(s, same, A, B, lost, e) ==
    IF same THEN F32Round(s, A + B, e, lost)
    ELSE IF lost THEN F32Round(s, A - B - 1, e, TRUE)
    ELSE IF A = B THEN F32Zero
    ELSE F32Round(s, A - B, e, FALSE)

\* big is shifted left by lsh bits and small right by rsh bits
F32AddShift(big, small, lsh, rsh) ==
    F32AddParts(big.s, big.s = small.s, big.m * Pow2(lsh),
                IF rsh >= 24 THEN 0 ELSE small.m \div Pow2(rsh),
                IF rsh >= 24 THEN TRUE ELSE small.m % Pow2(rsh) # 0,
                big.e - lsh)

\* |big| >= |small|, both non-zero, d the difference of the exponents;
\* the sum takes the sign of big
F32AddAligned(big, small, d) ==
    F32AddShift(big, small, IF d <= 6 THEN d ELSE 6, IF d <= 6 THEN 0 ELSE d - 6)

F32AddOrdered(a, b, swap) ==
    IF swap THEN F32AddAligned(b, a, b.e - a.e) ELSE F32AddAligned(a, b, a.e - b.e)

F32Add(a, b) ==
    IF a.m = 0 /\ b.m = 0 THEN (IF a.s = 1 /\ b.s = 1 THEN a ELSE F32Zero)
    ELSE IF a.m = 0 THEN b
    ELSE IF b.m = 0 THEN a
    ELSE F32AddOrdered(a, b, F32CmpAbs(a, b) < 0)

F32Sub(a, b) == F32Add(a, F32Neg(b))

\* the product of the mantissas is hi * 2^24 + lo, with 2^22 <= hi < 2^24
F32MulRound(s, hi, lo, e) ==
    F32Round(s, hi * 64 + lo \div Pow2(18), e + 18, lo % Pow2(18) # 0)

\* mid, lo0: the middle and the low partial sums
F32MulSum(s, hh, mid, lo0, e) ==
    F32MulRound(s, hh + mid \div 4096 + lo0 \div Pow2(24), lo0 % Pow2(24), e)

\* the mantissas split in 12-bit halves
F32MulParts(s, ah, al, bh, bl, e) ==
    F32MulSum(s, ah * bh, ah * bl + al * bh,
              al * bl + ((ah * bl + al * bh) % 4096) * 4096, e)

F32Mul(a, b) ==
    IF a.m = 0 \/ b.m = 0 THEN [s |-> IF a.s = b.s THEN 0 ELSE 1, m |-> 0, e |-> 0]
    ELSE F32MulParts(IF a.s = b.s THEN 0 ELSE 1, a.m \div 4096, a.m % 4096,
                     b.m \div 4096, b.m % 4096, a.e + b.e)

\* n further quotient bits of rem / d by long division: <<quotient, remainder>>
RECURSIVE DivBits(_, _, _, _)
DivBits(rem, q, d, n) ==
    IF n = 0 THEN <<q, rem>>
    ELSE IF 2 * rem >= d THEN DivBits(2 * rem - d, 2 * q + 1, d, n - 1)
    ELSE DivBits(2 * rem, 2 * q, d, n - 1)

F32DivRound(s, qr, e) == F32Round(s, qr[1], e, qr[2] # 0)

\* b is non-zero
F32Div(a, b) ==
    IF a.m = 0 THEN [s |-> IF a.s = b.s THEN 0 ELSE 1, m |-> 0, e |-> 0]
    ELSE F32DivRound(IF a.s = b.s THEN 0 ELSE 1,
                     DivBits(a.m % b.m, a.m \div b.m, b.m, 26), a.e - b.e - 26)

\* `x as u8`: truncation toward zero, saturating at 0 and 255
F32ToU8(a) ==
    IF a.m = 0 \/ a.s = 1 THEN 0
    ELSE IF a.e >= 0 THEN 255
    ELSE IF a.e <= -24 THEN 0
    ELSE IF a.m \div Pow2(0 - a.e) > 255 THEN 255
    ELSE a.m \div Pow2(0 - a.e)

(***************************************************************************)
(* Colour model: rgb_to_hsv_opencv                                         *)
(***************************************************************************)
F255 == F32FromInt(255)

F60 == F32FromInt(60)

F2 == F32FromInt(2)

F4 == F32FromInt(4)

F360 == F32FromInt(360)

\* a turn added to every hue
HueWrap_always(h) == F32Add(h, F360)

\* `if h < 0.0 { h += 360.0 }`
HueWrap(h) == IF F32Lt(h, F32Zero) THEN F32Add(h, F360) ELSE h

\* 60.0 * ((p - q) / delta + offset); the red branch adds no offset
HueSector(p, q, delta, offset, red) ==
    IF red THEN F32Mul(F60, F32Div(F32Sub(p, q), delta))
    ELSE F32Mul(F60, F32Add(F32Div(F32Sub(p, q), delta), offset))

\* the hue in degrees when delta > 0, by the channel that attains max
HueDegrees(rf, gf, bf, max, delta) ==
    IF ~(F32Eq(max, rf) \/ F32Eq(max, gf) \/ F32Eq(max, bf)) THEN F32Zero
    ELSE HueWrap(HueSector(
            IF F32Eq(max, rf) THEN gf ELSE IF F32Eq(max, gf) THEN bf ELSE rf,
            IF F32Eq(max, rf) THEN bf ELSE IF F32Eq(max, gf) THEN rf ELSE gf,
            delta,
            IF F32Eq(max, gf) THEN F2 ELSE F4,
            F32Eq(max, rf)))

\* v, s and h from the normalised channels, their max and delta = max - min
hsv_of(rf, gf, bf, max, delta) ==
    << F32ToU8(F32Div(IF F32Lt(F32Zero, delta)
                      THEN HueDegrees(rf, gf, bf, max, delta)
                      ELSE F32Zero, F2)),
       IF F32Lt(F32Zero, max) THEN F32ToU8(F32Mul(F32Div(delta, max), F255)) ELSE 0,
       F32ToU8(F32Mul(max, F255)) >>

max_min(rf, gf, bf, max, min) == hsv_of(rf, gf, bf, max, F32Sub(max, min))

normalised(rf, gf, bf) ==
    max_min(rf, gf, bf, F32Max(rf, F32Max(gf, bf)), F32Min(rf, F32Min(gf, bf)))

rgb_to_hsv_opencv(r, g, b) ==
    normalised(F32Div(F32FromInt(r), F255), F32Div(F32FromInt(g), F255),
               F32Div(F32FromInt(b), F255))

(***************************************************************************)
(* Configuration                                                           *)
(***************************************************************************)
\* f32 literals of the source
F0_435 == [s |-> 0, m |-> 14596178, e |-> -25]

F4_628 == [s |-> 0, m |-> 9705619, e |-> -21]

F0_23 == [s |-> 0, m |-> 15435039, e |-> -26]

F0_5 == [s |-> 0, m |-> 8388608, e |-> -24]

F1 == F32FromInt(1)

F10 == F32FromInt(10)

F1_07437623 == [s |-> 0, m |-> 9012521, e |-> -23]

FExponent == [s |-> 1, m |-> 16671230, e |-> -24]

\* Config::default(), with the capture region left to the caller
DefaultConfig(x_fov, y_fov) ==
    [x_fov |-> x_fov, y_fov |-> y_fov,
     ingame_sensitivity |-> F0_23,
     move_speed |-> F0_435, flick_speed |-> F4_628,
     lower_hsv |-> <<140, 120, 180>>, upper_hsv |-> <<160, 200, 255>>]

\* f32::powf, tabulated (correctly rounded) for the sensitivity of the model:
\* 0.23^(-0.9936827126) = 4.3076463
powf(x, y) ==
    CASE x = F0_23 /\ y = FExponent -> [s |-> 0, m |-> 9033789, e |-> -21]

calculate_speeds(c) ==
    [c EXCEPT !.flick_speed = F32Mul(F1_07437623, powf(c.ingame_sensitivity, FExponent)),
              !.move_speed  = F32Div(F1, F32Mul(F10, c.ingame_sensitivity))]

(***************************************************************************)
(* Frames: a rectangle [x0, x1] x [y0, y1] of colour fg on a background of *)
(* colour bg, in a frame of w x h pixels                                   *)
(***************************************************************************)
width(frame) == frame.w

height(frame) == frame.h

get_pixel(frame, x, y) ==
    IF frame.x0 <= x /\ x <= frame.x1 /\ frame.y0 <= y /\ y <= frame.y1
    THEN frame.fg ELSE frame.bg

(***************************************************************************)
(* Region detector: find_target_hsv                                        *)
(***************************************************************************)
None == [some |-> FALSE, x |-> 0, y |-> 0]

Some(x, y) == [some |-> TRUE, x |-> x, y |-> y]

MinCluster == 50

\* a division that rounds up
TruncDiv_up(a, b) == (a + b - 1) \div b

\* i64 division truncates toward zero
TruncDiv(a, b) == IF a >= 0 THEN a \div b ELSE 0 - ((0 - a) \div b)

InWindow(c, hsv) ==
    /\ hsv[1] >= c.lower_hsv[1] /\ hsv[1] <= c.upper_hsv[1]
    /\ hsv[2] >= c.lower_hsv[2] /\ hsv[2] <= c.upper_hsv[2]
    /\ hsv[3] >= c.lower_hsv[3] /\ hsv[3] <= c.upper_hsv[3]

pixel_hsv(pixel) == rgb_to_hsv_opencv(pixel[1], pixel[2], pixel[3])

\* the inner loop: the pixels x, x + 1, ... of row y, with running sums acc
\* (the second test on acc never holds; it makes the evaluation of acc strict)
RECURSIVE ScanRow(_, _, _, _, _)
ScanRow(c, frame, y, x, acc) ==
    IF x >= width(frame) \/ acc.pixel_count < 0 THEN acc
    ELSE IF InWindow(c, pixel_hsv(get_pixel(frame, x, y)))
         THEN ScanRow(c, frame, y, x + 1,
                      [total_x |-> acc.total_x + x, total_y |-> acc.total_y + y,
                       pixel_count |-> acc.pixel_count + 1])
         ELSE ScanRow(c, frame, y, x + 1, acc)

\* the outer loop: the rows y, y + 1, ...
RECURSIVE Scan(_, _, _, _)
Scan(c, frame, y, acc) ==
    IF y >= height(frame) \/ acc.pixel_count < 0 THEN acc
    ELSE Scan(c, frame, y + 1, ScanRow(c, frame, y, 0, acc))

\* a threshold that a cluster of exactly that size passes
centroid_at_least(acc) ==
    IF acc.pixel_count >= MinCluster
    THEN Some(TruncDiv(acc.total_x, acc.pixel_count),
              TruncDiv(acc.total_y, acc.pixel_count))
    ELSE None

\* the result from the sums of the whole frame
centroid(acc) ==
    IF acc.pixel_count > MinCluster
    THEN Some(TruncDiv(acc.total_x, acc.pixel_count),
              TruncDiv(acc.total_y, acc.pixel_count))
    ELSE None

\* the sums over the whole frame
Sums(c, frame) ==
    Scan(c, frame, 0, [total_x |-> 0, total_y |-> 0, pixel_count |-> 0])

find_target_hsv(c, frame) == centroid(Sums(c, frame))

(***************************************************************************)
(* Inputs of the model                                                     *)
(***************************************************************************)
MaxToggles == 3

MaxCycles == 2

MaxCloses == 1

Actions == {"Move", "Click", "Flick"}

\* the configurations handed to ColorantEngine::new: explicit gains on an
\* even-sized region, the zero sentinel (in move_speed, in flick_speed, in
\* both) on an odd-sized one, and a gain of 1.0 on a region of 10 x 10
Configs ==
    { DefaultConfig(26, 24),
      [DefaultConfig(25, 23) EXCEPT !.move_speed = F32Zero],
      [DefaultConfig(25, 23) EXCEPT !.flick_speed = F32Zero],
      [DefaultConfig(25, 23) EXCEPT !.move_speed = F32Zero, !.flick_speed = F32Zero],
      [DefaultConfig(10, 10) EXCEPT !.move_speed = F1] }

Purple == <<200, 80, 220>>

Black == <<0, 0, 0>>

Rect(c, x0, x1, y0, y1) ==
    [w |-> c.x_fov, h |-> c.y_fov, x0 |-> x0, x1 |-> x1, y0 |-> y0, y1 |-> y1,
     fg |-> Purple, bg |-> Black]

\* the value of `frame` before a frame has arrived
NoFrame ==
    [w |-> 0, h |-> 0, x0 |-> 1, x1 |-> 0, y0 |-> 1, y1 |-> 0,
     fg |-> Black, bg |-> Black]

\* a frame without any purple pixel
Blank(c) == Rect(c, 1, 0, 1, 0)

\* frames of 10 x 10: the two blocks of 6 x 6 around (5, 5), and a block of
\* 9 x 9 whose middle is (5, 5)
SmallFrames(c) ==
    { Blank(c), Rect(c, 2, 7, 2, 7), Rect(c, 3, 8, 3, 8), Rect(c, 1, 9, 1, 9) }

\* frames of the larger regions: a cluster of exactly 50 pixels, one of
\* 6 x 11 pixels in the upper left corner, one of 17 x 3 pixels whose middle
\* is 4 right of and 10 below the pixel (x_fov div 2, y_fov div 2), and one
\* of 11 x 6 pixels whose middle is 5 right of and half a pixel below it
LargeFrames(c) ==
    { Blank(c),
      Rect(c, 0, 4, 0, 9),
      Rect(c, 0, 5, 0, 10),
      Rect(c, c.x_fov \div 2 - 4, c.x_fov \div 2 + 12,
              c.y_fov \div 2 + 9, c.y_fov \div 2 + 11),
      Rect(c, c.x_fov \div 2, c.x_fov \div 2 + 10,
              c.y_fov \div 2 - 2, c.y_fov \div 2 + 3) }

\* frames the frame source may deliver
Frames(c) == IF c.x_fov = 10 THEN SmallFrames(c) ELSE LargeFrames(c)

(***************************************************************************)
(* Engine state                                                            *)
(***************************************************************************)
VARIABLES
    phase,       \* "unconstructed", "failed", "live", "dropped"
    config,      \* the Config given to new, then the engine's config
    toggled,     \* the enabled flag
    capture,     \* the frame source: the calls it has received
    mouse,       \* the output device: the calls it has received
    pc,          \* position of the process_action future
    action,      \* action of the current (or last) cycle
    got_frame,   \* whether get_frame_blocking delivered a frame in that cycle
    last_frame,  \* the frame it delivered
    target_pos,  \* centroid found in that cycle
    flick,       \* <<flick_x, flick_y>> of the current (or last) flick
    result,      \* return value of the last process_action
    toggle_ret,  \* return value of the last toggle
    calls,       \* number of calls of toggle, process_action and close
    rgb_in,      \* a pixel handed to rgb_to_hsv_opencv
    hsv_out      \* what it returned for that pixel

vars == <<phase, config, toggled, capture, mouse, pc, action, got_frame,
          last_frame, target_pos, flick, result, toggle_ret, calls, rgb_in, hsv_out>>

\* the collaborators, as seen at their interface
capture_resume(cap) == [cap EXCEPT !.resume = @ + 1, !.signal = "resume"]

capture_pause(cap) == [cap EXCEPT !.pause = @ + 1, !.signal = "pause"]

capture_stop(cap) == [cap EXCEPT !.stop = @ + 1]

capture_get_frame(cap) == [cap EXCEPT !.get_frame = @ + 1]

mouse_close(m) == [m EXCEPT !.close = @ + 1]

\* a command handed to the output device; it is pending until it returns
mouse_issue(m, cmd, x, y) ==
    [m EXCEPT !.log = Append(@, [cmd |-> cmd, x |-> x, y |-> y,
                                 cycle |-> calls.process_action,
                                 status |-> "pending"])]

mouse_return(m, ok) ==
    [m EXCEPT !.log[Len(m.log)].status = IF ok THEN "ok" ELSE "err"]

\* before ColorantEngine::new: nothing opened, nothing called
EngineInit ==
    /\ phase = "unconstructed"
    /\ toggled = FALSE
    /\ capture = [opened |-> FALSE, resume |-> 0, pause |-> 0, stop |-> 0,
                  get_frame |-> 0, signal |-> "none"]
    /\ mouse = [opened |-> FALSE, close |-> 0, log |-> <<>>]
    /\ pc = "idle"
    /\ action = "Move"
    /\ got_frame = FALSE
    /\ last_frame = NoFrame
    /\ target_pos = None
    /\ flick = <<F32Zero, F32Zero>>
    /\ result = "none"
    /\ toggle_ret = FALSE
    /\ calls = [toggle |-> 0, process_action |-> 0, close |-> 0]

Init ==
    /\ EngineInit
    /\ config \in Configs
    /\ rgb_in = Black
    /\ hsv_out = <<>>

(***************************************************************************)
(* ColorantEngine::new                                                     *)
(***************************************************************************)
\* a derivation that needs both gains to be the sentinel
new_config_both_zero(c) ==
    IF F32Eq(c.move_speed, F32Zero) /\ F32Eq(c.flick_speed, F32Zero)
    THEN calculate_speeds(c) ELSE c

\* `if config.move_speed == 0.0 || config.flick_speed == 0.0`
new_config(c) ==
    IF F32Eq(c.move_speed, F32Zero) \/ F32Eq(c.flick_speed, F32Zero)
    THEN calculate_speeds(c) ELSE c

\* an output device that is opened before the frame source is tried
mouse_opened_first(capture_ok, mouse_ok) == mouse_ok

\* `Capture::with_fov(..)?` precedes `ArduinoMouse::new(..)?`: the output
\* device is opened only after the frame source has been
mouse_opened(capture_ok, mouse_ok) == capture_ok /\ mouse_ok

New(capture_ok, mouse_ok) ==
    /\ phase = "unconstructed"
    /\ config' = new_config(config)
    /\ capture' = [capture EXCEPT !.opened = capture_ok]
    /\ mouse' = [mouse EXCEPT !.opened = mouse_opened(capture_ok, mouse_ok)]
    /\ phase' = IF capture_ok /\ mouse_ok THEN "live" ELSE "failed"
    /\ toggled' = FALSE
    /\ UNCHANGED <<pc, action, got_frame, last_frame, target_pos, flick,
                   result, toggle_ret, calls, rgb_in, hsv_out>>

(***************************************************************************)
(* toggle                                                                  *)
(***************************************************************************)
\* a toggle that resumes the frame source on every call
toggle_signal_always_resume(cap, t) == capture_resume(cap)

\* a toggle with the two signals exchanged
toggle_signal_swapped(cap, t) == IF t THEN capture_pause(cap) ELSE capture_resume(cap)

\* the signal sent to the frame source for the new value t of the flag
toggle_signal(cap, t) == IF t THEN capture_resume(cap) ELSE capture_pause(cap)

Toggle ==
    /\ phase = "live"
    /\ pc = "idle"
    /\ calls.toggle < MaxToggles
    /\ calls' = [calls EXCEPT !.toggle = @ + 1]
    /\ toggled' = ~toggled
    /\ capture' = toggle_signal(capture, toggled')
    /\ toggle_ret' = toggled'
    /\ UNCHANGED <<phase, config, mouse, pc, action, got_frame, last_frame,
                   target_pos, flick, result, rgb_in, hsv_out>>

(***************************************************************************)
(* process_action                                                          *)
(***************************************************************************)
\* a process_action without the check of the enabled flag
returns_early_never(t) == FALSE

\* the early return of a disabled engine
returns_early(t) == ~t

\* a missing frame reported as an error
no_frame_result_err == "Err"

\* the value returned when no frame arrived within the timeout
no_frame_result == "Ok"

\* the result of an output command discarded
is_err_ignored(ok) == FALSE

\* `?` on the result of an output command: an error ends the cycle
is_err(ok) == ~ok

x_diff(c, t) == F32Sub(F32FromInt(t.x), F32Div(F32FromInt(c.x_fov), F2))

y_diff(c, t) == F32Sub(F32FromInt(t.y), F32Div(F32FromInt(c.y_fov), F2))

\* a centring test with the horizontal tolerance in both directions
centered_symmetric(c, t) ==
    /\ F32Le(F32Abs(x_diff(c, t)), F4)
    /\ F32Le(F32Abs(y_diff(c, t)), F4)

\* `x_diff.abs() <= 4.0 && y_diff.abs() <= 10.0`
centered(c, t) ==
    /\ F32Le(F32Abs(x_diff(c, t)), F4)
    /\ F32Le(F32Abs(y_diff(c, t)), F10)

\* a displacement scaled by the gain of the flick
move_command_flick_speed(c, t) ==
    <<F32Mul(x_diff(c, t), c.flick_speed), F32Mul(y_diff(c, t), c.flick_speed)>>

\* `(x_diff * move_speed, y_diff * move_speed)`
move_command(c, t) ==
    <<F32Mul(x_diff(c, t), c.move_speed), F32Mul(y_diff(c, t), c.move_speed)>>

flick_command(c, t) ==
    <<F32Mul(x_diff(c, t), c.flick_speed), F32Mul(y_diff(c, t), c.flick_speed)>>

\* a restoring flick that repeats the direction of the flick
flick_back_not_negated(f) == <<F32Mul(f[1], F0_5), F32Mul(f[2], F0_5)>>

flick_back(f) == <<F32Mul(F32Neg(f[1]), F0_5), F32Mul(F32Neg(f[2]), F0_5)>>

\* a restoring flick that is started but not awaited
flick_back_not_awaited == "idle"

\* where the future waits after the restoring flick has been issued
flick_back_pc == "flick_back"

Return(r) == result' = r /\ pc' = "idle"

\* gains derived again in every cycle
cycle_config_rederived(c) == calculate_speeds(c)

\* process_action reads self.config and never assigns to it
cycle_config(c) == c

ProcessActionCall(a) ==
    /\ phase = "live"
    /\ pc = "idle"
    /\ calls.process_action < MaxCycles
    /\ calls' = [calls EXCEPT !.process_action = @ + 1]
    /\ action' = a
    /\ got_frame' = FALSE
    /\ last_frame' = NoFrame
    /\ target_pos' = None
    /\ IF returns_early(toggled)
       THEN Return("Ok") /\ UNCHANGED capture
       ELSE /\ capture' = capture_get_frame(capture)
            /\ pc' = "get_frame"
            /\ result' = "pending"
    /\ config' = cycle_config(config)
    /\ UNCHANGED <<phase, toggled, mouse, flick, toggle_ret, rgb_in, hsv_out>>

GetFrameTimeout ==
    /\ pc = "get_frame"
    /\ Return(no_frame_result)
    /\ UNCHANGED <<phase, config, toggled, capture, mouse, action,
                   got_frame, last_frame, target_pos, flick, toggle_ret,
                   calls, rgb_in, hsv_out>>

\* `match action`: the first command of the action on the centroid t
Perform(t) ==
    IF action = "Move" THEN
        /\ mouse' = mouse_issue(mouse, "move", move_command(config, t)[1],
                                move_command(config, t)[2])
        /\ pc' = "move"
        /\ UNCHANGED <<result, flick>>
    ELSE IF action = "Click" THEN
        IF centered(config, t)
        THEN /\ mouse' = mouse_issue(mouse, "click", F32Zero, F32Zero)
             /\ pc' = "click"
             /\ UNCHANGED <<result, flick>>
        ELSE Return("Ok") /\ UNCHANGED <<mouse, flick>>
    ELSE
        /\ flick' = flick_command(config, t)
        /\ mouse' = mouse_issue(mouse, "flick", flick'[1], flick'[2])
        /\ pc' = "flick"
        /\ UNCHANGED result

\* an action performed on the coordinates of an absent centroid
Dispatch_unchecked(t) == Perform(t)

\* `if let Some((target_x, target_y)) = target_pos`: without a centroid the
\* cycle ends with Ok
Dispatch(t) ==
    IF ~t.some THEN Return("Ok") /\ UNCHANGED <<mouse, flick>>
    ELSE Perform(t)

\* find_target_hsv, and the number of pixels it counted, on every frame of
\* the model, evaluated once
Detection ==
    { [c |-> cf[1], frame |-> cf[2],
       count |-> Sums(cf[1], cf[2]).pixel_count,
       target |-> find_target_hsv(cf[1], cf[2])] :
        cf \in { p \in (Configs \cup {new_config(c0) : c0 \in Configs}) \X
                        UNION {Frames(c1) : c1 \in Configs} :
                 p[2].w = p[1].x_fov /\ p[2].h = p[1].y_fov } }

Detected(c, frame) ==
    (CHOOSE d \in Detection : d.c = c /\ d.frame = frame).target

GetFrameDelivered(frame) ==
    /\ pc = "get_frame"
    /\ got_frame' = TRUE
    /\ last_frame' = frame
    /\ target_pos' = Detected(config, frame)
    /\ Dispatch(target_pos')
    /\ UNCHANGED <<phase, config, toggled, capture, action, toggle_ret,
                   calls, rgb_in, hsv_out>>

\* an output command returns; on success the sequence goes on
MouseReturn(ok) ==
    /\ pc \in {"move", "click", "flick", "flick_click", "flick_back"}
    /\ IF is_err(ok)
       THEN mouse' = mouse_return(mouse, ok) /\ Return("Err")
       ELSE IF pc = "flick" THEN
           /\ mouse' = mouse_issue(mouse_return(mouse, ok), "click", F32Zero, F32Zero)
           /\ pc' = "flick_click"
           /\ UNCHANGED result
       ELSE IF pc = "flick_click" THEN
           /\ mouse' = mouse_issue(mouse_return(mouse, ok), "flick",
                                   flick_back(flick)[1], flick_back(flick)[2])
           /\ pc' = flick_back_pc
           /\ UNCHANGED result
       ELSE mouse' = mouse_return(mouse, ok) /\ Return("Ok")
    /\ UNCHANGED <<phase, config, toggled, capture, action, got_frame,
                   last_frame, target_pos, flick, toggle_ret, calls, rgb_in,
                   hsv_out>>

(***************************************************************************)
(* close and Drop                                                          *)
(***************************************************************************)
close ==
    /\ capture' = capture_stop(capture)
    /\ mouse' = mouse_close(mouse)

is_enabled == toggled

Close ==
    /\ phase = "live"
    /\ pc = "idle"
    /\ calls.close < MaxCloses
    /\ calls' = [calls EXCEPT !.close = @ + 1]
    /\ close
    /\ UNCHANGED <<phase, config, toggled, pc, action, got_frame,
                   last_frame, target_pos, flick, result, toggle_ret, rgb_in,
                   hsv_out>>

\* an engine whose destruction releases nothing
Drop_without_close ==
    /\ phase = "live"
    /\ pc = "idle"
    /\ phase' = "dropped"
    /\ UNCHANGED <<config, toggled, capture, mouse, pc, action, got_frame,
                   last_frame, target_pos, flick, result, toggle_ret,
                   calls, rgb_in, hsv_out>>

Drop ==
    /\ phase = "live"
    /\ pc = "idle"
    /\ close
    /\ phase' = "dropped"
    /\ UNCHANGED <<config, toggled, pc, action, got_frame, last_frame,
                   target_pos, flick, result, toggle_ret, calls, rgb_in, hsv_out>>

Next ==
    \/ \E cok \in BOOLEAN, mok \in BOOLEAN : New(cok, mok)
    \/ Toggle
    \/ \E act \in Actions : ProcessActionCall(act)
    \/ GetFrameTimeout
    \/ \E fr \in Frames(config) : GetFrameDelivered(fr)
    \/ \E rok \in BOOLEAN : MouseReturn(rok)
    \/ Close
    \/ Drop

Spec == Init /\ [][Next]_vars

(***************************************************************************)
(* The colour conversion on its own: a pixel is drawn from the bytes below *)
(* and converted once                                                      *)
(***************************************************************************)
\* bytes in steps of 17, and the neighbours of the ends and of the middle
Bytes == {17 * i : i \in 0..15} \cup {1, 2, 127, 128, 253, 254}

InitHsv ==
    /\ EngineInit
    /\ config = DefaultConfig(26, 24)
    /\ rgb_in \in Bytes \X Bytes \X Bytes
    /\ hsv_out = <<>>

Convert ==
    /\ hsv_out = <<>>
    /\ hsv_out' = rgb_to_hsv_opencv(rgb_in[1], rgb_in[2], rgb_in[3])
    /\ UNCHANGED <<phase, config, toggled, capture, mouse, pc, action,
                   got_frame, last_frame, target_pos, flick, result,
                   toggle_ret, calls, rgb_in>>

NextHsv == Convert

SpecHsv == InitHsv /\ [][NextHsv]_vars

(***************************************************************************)
(* Properties                                                              *)
(***************************************************************************)

\* C1: shutdown is idempotent: whatever number of explicit close() calls
\* precede the drop, the frame source is stopped and the output device is
\* closed exactly once each (never a second stop, never a second close).
C1_StopAndCloseExactlyOnce ==
    /\ capture.stop <= 1
    /\ mouse.close <= 1
    /\ (phase = "dropped" => capture.stop = 1 /\ mouse.close = 1)

\* C2: once shutdown has run the engine is Stopped: no later step sends
\* resume or pause to the frame source, requests a frame, or issues a
\* command to the output device.
C2_StoppedIsTerminal ==
    [][capture.stop > 0 =>
         /\ capture'.resume = capture.resume
         /\ capture'.pause = capture.pause
         /\ capture'.get_frame = capture.get_frame
         /\ mouse'.log = mouse.log]_vars

\* C3: whenever a constructed engine has been destroyed, with or without a
\* prior explicit close() and whatever its state, the frame source has been
\* stopped and the output device has been closed.
C3_TeardownOnDrop ==
    phase = "dropped" => capture.stop >= 1 /\ mouse.close >= 1

\* an Enabled engine destroyed without any explicit close()
C3_Witness ==
    phase = "dropped" /\ calls.close = 0 /\ toggled /\ capture.stop = 1

\* C4: while the engine is Disabled, a process_action call, for any action
\* kind, returns Ok at once, requests no frame and issues no output command.
C4_DisabledCycleIsNoop ==
    [][(calls'.process_action # calls.process_action /\ ~is_enabled) =>
         /\ result' = "Ok"
         /\ pc' = "idle"
         /\ capture' = capture
         /\ mouse' = mouse]_vars

\* a Flick requested from a Disabled engine has returned Ok, and no frame
\* was ever requested
C4_Witness ==
    /\ calls.process_action >= 1
    /\ ~toggled
    /\ action = "Flick"
    /\ result = "Ok"
    /\ pc = "idle"
    /\ capture.get_frame = 0

\* C5 (as stated): toggle is an idempotent enable: a call made on an engine
\* that is already Enabled leaves it Enabled and sends no further resume.
C5_EnableIsIdempotent ==
    [][(calls'.toggle # calls.toggle /\ is_enabled) =>
         (is_enabled' /\ capture'.resume = capture.resume)]_vars

\* C5 (amended): every toggle call flips the flag, so a call made on an
\* Enabled engine leaves it Disabled and sends one pause and no resume; the
\* frame source receives a resume in exactly the steps that flip the flag
\* from Disabled to Enabled, one per flip.
C5_ResumePerFlip ==
    [][/\ (capture'.resume # capture.resume) <=> (~is_enabled /\ is_enabled')
       /\ (capture'.resume # capture.resume) => capture'.resume = capture.resume + 1
       /\ (calls'.toggle # calls.toggle) => is_enabled' = ~is_enabled
       /\ (calls'.toggle # calls.toggle /\ is_enabled) =>
              /\ ~is_enabled'
              /\ capture'.pause = capture.pause + 1]_vars

\* two toggle calls in a row on a fresh engine: Disabled again, one resume
\* and one pause received
C5_Witness ==
    /\ calls.toggle = 2
    /\ calls.process_action = 0
    /\ ~toggled
    /\ capture.resume = 1
    /\ capture.pause = 1

\* C6: the engine starts Disabled; each toggle call flips the flag, returns
\* the new value and signals resume when the new state is Enabled and pause
\* when it is Disabled; before shutdown the last signal received by the
\* frame source agrees with is_enabled(), and only toggle changes the flag.
C6_SignalFollowsFlag ==
    /\ [](phase = "live" /\ calls.toggle = 0 => ~is_enabled)
    /\ [](phase = "live" /\ capture.stop = 0 =>
             (is_enabled <=> capture.signal = "resume"))
    /\ [][calls'.toggle # calls.toggle =>
             /\ is_enabled' = ~is_enabled
             /\ toggle_ret' = is_enabled'
             /\ capture'.signal = IF is_enabled' THEN "resume" ELSE "pause"]_vars
    /\ [][is_enabled' # is_enabled => calls'.toggle = calls.toggle + 1]_vars

\* toggles mixed with cycles, ending Enabled with resume as last signal
C6_Witness ==
    /\ calls.toggle = 3
    /\ calls.process_action >= 1
    /\ capture.stop = 0
    /\ toggled
    /\ toggle_ret
    /\ capture.signal = "resume"

\* C7: when an output command fails, process_action returns the error at
\* once: no further command of that cycle is issued (the failed one is not
\* issued again) and the cycle ends with the error.
C7_ErrorAbortsCycle ==
    \A i \in 1..Len(mouse.log) :
        mouse.log[i].status = "err" =>
            /\ i < Len(mouse.log) => mouse.log[i + 1].cycle > mouse.log[i].cycle
            /\ mouse.log[i].cycle = calls.process_action =>
                   pc = "idle" /\ result = "Err"

\* a Flick whose click failed: the flick and the click were issued, the
\* restoring flick was not, and the error was returned
C7_Witness ==
    /\ Len(mouse.log) = 2
    /\ mouse.log[1].cmd = "flick" /\ mouse.log[1].status = "ok"
    /\ mouse.log[2].cmd = "click" /\ mouse.log[2].status = "err"
    /\ pc = "idle"
    /\ result = "Err"

\* C8: an Enabled cycle in which no frame arrives within the timeout returns
\* Ok, issues no output command and leaves the flag unchanged, and the next
\* cycle of the Enabled engine requests a frame again.
C8_TimeoutIsNoop ==
    [][/\ (pc = "get_frame" /\ ~got_frame') =>
              /\ result' = "Ok"
              /\ pc' = "idle"
              /\ mouse' = mouse
              /\ toggled' = toggled
       /\ (/\ calls'.process_action # calls.process_action
           /\ is_enabled
           /\ capture.get_frame > 0 /\ ~got_frame /\ result = "Ok") =>
              /\ capture'.get_frame = capture.get_frame + 1
              /\ pc' = "get_frame"]_vars

\* the cycle after a timed-out cycle is waiting for its frame
C8_Witness ==
    /\ calls.process_action = 2
    /\ capture.get_frame = 2
    /\ pc = "get_frame"
    /\ mouse.log = <<>>

\* the commands issued in the current (or last) cycle
CycleLog == SelectSeq(mouse.log, LAMBDA en : en.cycle = calls.process_action)

\* a and b point in opposite directions (or are both zero)
Opposite(a, b) == IF a.m = 0 THEN b.m = 0 ELSE b.m # 0 /\ a.s # b.s

\* C9: a successful Flick cycle with a detected target issues exactly three
\* commands in this order: a flick by (dx * flick_speed, dy * flick_speed),
\* a click, and a restoring flick in the opposite direction; each command
\* has returned before the next one is issued.
C9_FlickTriplet ==
    /\ (pc = "idle" /\ result = "Ok" /\ action = "Flick" /\ target_pos.some) =>
          /\ Len(CycleLog) = 3
          /\ CycleLog[1].cmd = "flick"
          /\ CycleLog[1].x =
                 F32Mul(F32Sub(F32FromInt(target_pos.x),
                               F32Div(F32FromInt(config.x_fov), F2)),
                        config.flick_speed)
          /\ CycleLog[1].y =
                 F32Mul(F32Sub(F32FromInt(target_pos.y),
                               F32Div(F32FromInt(config.y_fov), F2)),
                        config.flick_speed)
          /\ CycleLog[2].cmd = "click"
          /\ CycleLog[3].cmd = "flick"
          /\ Opposite(CycleLog[1].x, CycleLog[3].x)
          /\ Opposite(CycleLog[1].y, CycleLog[3].y)
          /\ \A i \in 1..3 : CycleLog[i].status = "ok"
    /\ (action = "Flick" /\ pc # "idle") =>
          \A i \in 1..(Len(CycleLog) - 1) : CycleLog[i].status = "ok"

\* a Flick on a target left of and above the centre has completed
C9_Witness ==
    /\ pc = "idle" /\ result = "Ok" /\ action = "Flick" /\ target_pos.some
    /\ Len(CycleLog) = 3
    /\ CycleLog[1].x.m # 0 /\ CycleLog[1].x.s = 1
    /\ CycleLog[3].x.m # 0 /\ CycleLog[3].x.s = 0

\* C10: cycles of one engine never interleave: a command is pending only
\* while its own cycle is in flight, every command of an earlier cycle has
\* returned before a command of a later cycle is issued, and the log is
\* ordered by cycle, so a Flick triplet is never split by another cycle.
C10_CyclesDoNotInterleave ==
    /\ \A i \in 1..Len(mouse.log) :
          mouse.log[i].status = "pending" =>
              /\ i = Len(mouse.log)
              /\ mouse.log[i].cycle = calls.process_action
              /\ pc \notin {"idle", "get_frame"}
    /\ \A i \in 1..(Len(mouse.log) - 1) :
          mouse.log[i].cycle <= mouse.log[i + 1].cycle

\* two complete Flick triplets, one after the other
C10_Witness ==
    /\ Len(mouse.log) = 6
    /\ \A i \in 1..3 : mouse.log[i].cycle = 1 /\ mouse.log[i + 3].cycle = 2
    /\ mouse.log[6].status = "pending"

\* twice the absolute value of n - d / 2, for integers n and d
TwiceDist(n, d) == IF 2 * n >= d THEN 2 * n - d ELSE d - 2 * n

\* C11: a Click cycle with a detected centroid (x, y) issues exactly one
\* click when |x - x_fov/2| <= 4 and |y - y_fov/2| <= 10 and no output
\* command at all otherwise; a centroid 4 right of and 10 below the middle
\* pixel is clicked and one 5 right of it is not, for even and odd regions.
C11_ClickTolerance ==
    (action = "Click" /\ got_frame /\ target_pos.some) =>
        /\ IF /\ TwiceDist(target_pos.x, config.x_fov) <= 8
              /\ TwiceDist(target_pos.y, config.y_fov) <= 20
           THEN Len(CycleLog) = 1 /\ CycleLog[1].cmd = "click"
           ELSE CycleLog = <<>> /\ pc = "idle" /\ result = "Ok"
        /\ (/\ target_pos.x = config.x_fov \div 2 + 4
            /\ target_pos.y = config.y_fov \div 2 + 10) => Len(CycleLog) = 1
        /\ (/\ target_pos.x = config.x_fov \div 2 + 5
            /\ target_pos.y = config.y_fov \div 2) => CycleLog = <<>>

\* on an odd-sized region, a Click on a centroid at (+4, +10) was answered
\* by a click, and the next Click, on a centroid at (+5, 0), by nothing
C11_Witness ==
    /\ config.x_fov = 25 /\ config.y_fov = 23
    /\ calls.process_action = 2
    /\ action = "Click" /\ got_frame /\ pc = "idle"
    /\ target_pos = Some(17, 11)
    /\ Len(mouse.log) = 1
    /\ mouse.log[1].cmd = "click" /\ mouse.log[1].cycle = 1
    /\ mouse.log[1].status = "ok"

\* C12: an Enabled cycle whose frame yields no centroid (no pixel in the
\* window, or a cluster that is too small) issues no output command,
\* whatever the action, and returns Ok.
C12_NoCentroidNoCommand ==
    (got_frame /\ ~Detected(config, last_frame).some) =>
        /\ ~target_pos.some
        /\ CycleLog = <<>>
        /\ pc = "idle"
        /\ result = "Ok"

\* after a complete Flick, a second Flick on a frame with a cluster of 50
\* pixels has returned Ok and added no command
C12_Witness ==
    /\ calls.process_action = 2
    /\ action = "Flick" /\ got_frame
    /\ last_frame = Rect(config, 0, 4, 0, 9)
    /\ pc = "idle" /\ result = "Ok"
    /\ Len(mouse.log) = 3
    /\ mouse.log[3].cycle = 1

\* C13: construction fails as a whole when the frame source or the output
\* device cannot be initialised: new returns the error and no engine, so no
\* operation of an engine ever runs, and the output device is not opened
\* when the frame source could not be.
C13_ConstructionFailsAsAWhole ==
    /\ phase # "unconstructed" =>
           (phase = "failed" <=> ~(capture.opened /\ mouse.opened))
    /\ phase = "failed" =>
           /\ calls = [toggle |-> 0, process_action |-> 0, close |-> 0]
           /\ capture.resume = 0 /\ capture.pause = 0 /\ capture.stop = 0
           /\ capture.get_frame = 0
           /\ mouse.close = 0 /\ mouse.log = <<>>
           /\ ~toggled
    /\ ~capture.opened => ~mouse.opened

\* construction has failed at the frame source
C13_Witness ==
    phase = "failed" /\ ~capture.opened /\ ~mouse.opened

\* C14: the engine that new returns holds gains derived from the
\* sensitivity exactly when the given move_speed or flick_speed is zero, and
\* then both are the derived values (a move_speed of 0.43478262 for the
\* sensitivity 0.23); when both are non-zero the given gains are kept, and
\* no other field changes in either case.
C14_GainsDerivedOnSentinel ==
    [][(phase = "unconstructed" /\ phase' = "live") =>
         IF config.move_speed.m = 0 \/ config.flick_speed.m = 0
         THEN /\ config'.move_speed = calculate_speeds(config).move_speed
              /\ config'.flick_speed = calculate_speeds(config).flick_speed
              /\ config'.move_speed = [s |-> 0, m |-> 14588884, e |-> -25]
              /\ config' = [config EXCEPT !.move_speed = config'.move_speed,
                                          !.flick_speed = config'.flick_speed]
         ELSE config' = config]_vars

\* an engine whose two gains are the derived ones
C14_Witness ==
    /\ phase = "live"
    /\ config.ingame_sensitivity = F0_23
    /\ config.move_speed = [s |-> 0, m |-> 14588884, e |-> -25]
    /\ config.flick_speed \notin {F32Zero, F4_628}

\* C15: the configuration of a constructed engine is read-only: no toggle,
\* process_action or close call (nor any step of a cycle) changes the
\* region, the HSV bounds, the sensitivity or the gains, so the gains are
\* those fixed at construction.
C15_ConfigIsReadOnly ==
    [][phase = "live" => config' = config]_vars

\* toggle, two cycles with output and close have run on an engine given
\* explicit gains, which it still holds
C15_Witness ==
    /\ phase = "live"
    /\ calls.toggle >= 1 /\ calls.process_action = 2 /\ calls.close = 1
    /\ Len(mouse.log) >= 2
    /\ config = DefaultConfig(26, 24)

\* v is the f32 nearest to (n / 2) * g, for an integer n and an f32 g > 0:
\* the same sign, and at most half a unit in the last place away
IsProduct(v, n, g) ==
    IF n = 0 THEN v.m = 0
    ELSE /\ v.m # 0
         /\ v.s = IF n < 0 THEN 1 ELSE 0
         /\ v.e - (g.e - 1) \in 0..6
         /\ 2 * TwiceDist(v.m * Pow2(v.e - (g.e - 1)),
                          2 * (IF n < 0 THEN 0 - n ELSE n) * g.m)
                <= 2 * Pow2(v.e - (g.e - 1))

\* C16: a Move cycle with a detected centroid (x, y) issues exactly one
\* command, a displacement by ((x - x_fov / 2) * move_speed,
\* (y - y_fov / 2) * move_speed) (each product rounded to f32), and no click.
C16_MoveCommand ==
    (action = "Move" /\ got_frame /\ target_pos.some) =>
        /\ Len(CycleLog) = 1
        /\ CycleLog[1].cmd = "move"
        /\ IsProduct(CycleLog[1].x, 2 * target_pos.x - config.x_fov,
                     config.move_speed)
        /\ IsProduct(CycleLog[1].y, 2 * target_pos.y - config.y_fov,
                     config.move_speed)

\* a Move towards a centroid left of and above the middle has completed
C16_Witness ==
    /\ action = "Move" /\ got_frame /\ target_pos = Some(2, 5)
    /\ pc = "idle" /\ result = "Ok"
    /\ Len(CycleLog) = 1
    /\ CycleLog[1].cmd = "move" /\ CycleLog[1].status = "ok"
    /\ CycleLog[1].x.s = 1 /\ CycleLog[1].x.m # 0

\* |v| <= 1 for an f32 v
NearZero(v) == v.m = 0 \/ v.e <= -24 \/ (v.m = Pow2(23) /\ v.e = -23)

\* C17: end to end, an Enabled Move cycle with move_speed 1.0 on a region
\* of 10 x 10 whose frame holds a block of 6 x 6 matching pixels around
\* (5, 5) issues a move command of approximately (0, 0).
C17_SmallBlockIsCentred ==
    (/\ config.x_fov = 10 /\ config.y_fov = 10 /\ config.move_speed = F1
     /\ is_enabled /\ action = "Move" /\ got_frame
     /\ last_frame \in {Rect(config, 2, 7, 2, 7), Rect(config, 3, 8, 3, 8)}) =>
        /\ Len(CycleLog) = 1
        /\ CycleLog[1].cmd = "move"
        /\ NearZero(CycleLog[1].x)
        /\ NearZero(CycleLog[1].y)

\* the number of pixels of the rectangle of a frame
Area(frame) ==
    IF frame.x1 < frame.x0 \/ frame.y1 < frame.y0 THEN 0
    ELSE (frame.x1 - frame.x0 + 1) * (frame.y1 - frame.y0 + 1)

\* C18: detection returns a target only when the number of pixels inside
\* the HSV window exceeds the threshold strictly: none for no matching
\* pixel, none for exactly the threshold, a centroid for one more.
C18_StrictThreshold ==
    /\ \A d \in Detection :
          /\ d.count = Area(d.frame)
          /\ d.target.some <=> d.count > MinCluster
    /\ got_frame =>
          /\ target_pos.some <=> Area(last_frame) > MinCluster
          /\ Area(last_frame) = 0 => target_pos = None
          /\ Area(last_frame) = MinCluster => target_pos = None
          /\ Area(last_frame) = MinCluster + 1 => target_pos.some

\* a frame with one pixel more than the threshold has given a centroid, and
\* the model has a frame with exactly the threshold
C18_Witness ==
    /\ got_frame
    /\ Area(last_frame) = MinCluster + 1
    /\ target_pos.some
    /\ \E d \in Detection : d.c = config /\ d.count = MinCluster /\ d.target = None

\* C19: on a frame whose matching pixels are a filled rectangle
\* [x0, x1] x [y0, y1] of more pixels than the threshold, detection returns
\* (floor((x0 + x1) / 2), floor((y0 + y1) / 2)), a pixel of the frame.
C19_RectangleCentre ==
    /\ \A d \in Detection :
          Area(d.frame) > MinCluster =>
              d.target = Some((d.frame.x0 + d.frame.x1) \div 2,
                              (d.frame.y0 + d.frame.y1) \div 2)
    /\ (got_frame /\ Area(last_frame) > MinCluster) =>
          /\ target_pos = Some((last_frame.x0 + last_frame.x1) \div 2,
                               (last_frame.y0 + last_frame.y1) \div 2)
          /\ target_pos.x \in 0..(width(last_frame) - 1)
          /\ target_pos.y \in 0..(height(last_frame) - 1)

\* the rectangle [0, 5] x [0, 10], whose centre (2.5, 5) is no pixel, has
\* given the centroid (2, 5)
C19_Witness ==
    /\ got_frame
    /\ last_frame = Rect(config, 0, 5, 0, 10)
    /\ target_pos = Some(2, 5)

\* C20: for all bytes r, g, b the conversion returns a hue in 0..180 and a
\* saturation and a value in 0..255.
C20_HsvRanges ==
    hsv_out # <<>> =>
        /\ hsv_out[1] \in 0..180
        /\ hsv_out[2] \in 0..255
        /\ hsv_out[3] \in 0..255

\* a red just short of a full turn: (255, 0, 1) has been converted to the
\* hue 179 at full saturation and value
C20_Witness ==
    /\ rgb_in = <<255, 0, 1>>
    /\ hsv_out = <<179, 255, 255>>

====
